---- MODULE Spec2Model ----
(***************************************************************************)
(* solver16.py: best-first search for the 15-puzzle in which one move      *)
(* slides 1 to 3 tiles of the blank's row or column.                       *)
(*                                                                         *)
(* Boards live in an arena (the sequence `boards`, in construction order); *)
(* a Board object is its index there and None is 0.  A grid is a function  *)
(* 0..3 -> 0..3 -> 0..15, indexed as tiles[r][c] like the Python lists.    *)
(* A Python string is the sequence of its characters.                      *)
(***************************************************************************)
EXTENDS Integers, Sequences, FiniteSets, TLC

VARIABLES boards, fringe, min_p_board, pc, output

vars == <<boards, fringe, min_p_board, pc, output>>

\* ------------------------------------------------------------------ bounds
\* roots of the search are the grids at most MaxRootDepth slides away from
\* the goal grid (solvable) or from the goal with 1 and 2 swapped (not)
MaxRootDepth == 3

\* ------------------------------------------------------------- data model
None == 0

Rows(s) == [r \in 0..3 |-> [c \in 0..3 |-> s[r + 1][c + 1]]]

goal_tiles == Rows(<<<<1, 2, 3, 4>>, <<5, 6, 7, 8>>, <<9, 10, 11, 12>>, <<13, 14, 15, 0>>>>)

goal_cols == Rows(<<<<1, 5, 9, 13>>, <<2, 6, 10, 14>>, <<3, 7, 11, 15>>, <<4, 8, 12, 0>>>>)

\* x in list, for a row of goal_tiles or goal_cols
InList(x, list) == \E k \in DOMAIN list : list[k] = x

Abs(x) == IF x < 0 THEN 0 - x ELSE x

\* Python evaluates the arguments of a call once, before the call: CallN
\* applies F to the values of its arguments
Call1(F(_), a) == CHOOSE v \in {F(x) : x \in {a}} : TRUE

Call3(F(_, _, _), a, b, c) ==
    CHOOSE v \in {F(x[1], x[2], x[3]) : x \in {<<a, b, c>>}} : TRUE

Call4(F(_, _, _, _), a, b, c, d) ==
    CHOOSE v \in {F(x[1], x[2], x[3], x[4]) : x \in {<<a, b, c, d>>}} : TRUE

Call5(F(_, _, _, _, _), a, b, c, d, e) ==
    CHOOSE v \in {F(x[1], x[2], x[3], x[4], x[5]) : x \in {<<a, b, c, d, e>>}} : TRUE

RECURSIVE SumTo(_, _)
\* sum of f[0] .. f[n]
SumTo(f, n) == IF n < 0 THEN 0 ELSE f[n] + SumTo(f, n - 1)

\* ------------------------------------------------------------- heuristics
distance_to_goal_position(tiles, r, c) ==
    IF tiles[r][c] = 0
    THEN 0
    ELSE Abs(((tiles[r][c] - 1) \div 4) - r) + Abs(((tiles[r][c] - 1) % 4) - c)

\* the Manhattan distance divided by 3, as the header of solver16.py has it
calc_manhattan_distance_by_3(tiles) ==
    SumTo([r \in 0..3 |->
             SumTo([c \in 0..3 |-> distance_to_goal_position(tiles, r, c)], 3)], 3) \div 3

calc_manhattan_distance(tiles) ==
    SumTo([r \in 0..3 |->
             SumTo([c \in 0..3 |-> distance_to_goal_position(tiles, r, c)], 3)], 3)

calc_horizontal_conflicts(tiles) ==
    2 * Cardinality({p \in (0..3) \X (0..3) \X (0..3) :
          /\ tiles[p[1]][p[2]] # 0
          /\ InList(tiles[p[1]][p[2]], goal_tiles[p[1]])
          /\ p[3] >= p[2] + 1
          /\ tiles[p[1]][p[3]] # 0
          /\ InList(tiles[p[1]][p[3]], goal_tiles[p[1]])
          /\ tiles[p[1]][p[2]] > tiles[p[1]][p[3]]})

calc_vertical_conflicts(tiles) ==
    2 * Cardinality({p \in (0..3) \X (0..3) \X (0..3) :
          /\ tiles[p[2]][p[1]] # 0
          /\ InList(tiles[p[2]][p[1]], goal_cols[p[1]])
          /\ p[3] >= p[2] + 1
          /\ tiles[p[3]][p[1]] # 0
          /\ InList(tiles[p[3]][p[1]], goal_cols[p[1]])
          /\ tiles[p[2]][p[1]] > tiles[p[3]][p[1]]})

\* swap_and_get_new_tiles that copies one way only
copy_and_get_new_tiles(tiles, r1, c1, r2, c2) ==
    [r \in 0..3 |-> [c \in 0..3 |->
        IF r = r1 /\ c = c1 THEN tiles[r2][c2] ELSE tiles[r][c]]]

swap_and_get_new_tiles(tiles, r1, c1, r2, c2) ==
    [r \in 0..3 |-> [c \in 0..3 |->
        IF r = r1 /\ c = c1 THEN tiles[r2][c2]
        ELSE IF r = r2 /\ c = c2 THEN tiles[r1][c1]
        ELSE tiles[r][c]]]

diff_manhattan_dist_on_row(tiles1, tiles2, r0) ==
    SumTo([c \in 0..3 |->
             IF tiles1[r0][c] # tiles2[r0][c]
             THEN distance_to_goal_position(tiles1, r0, c)
                  - distance_to_goal_position(tiles2, r0, c)
             ELSE 0], 3)

\* diff_manhattan_dist_on_col with the difference taken the other way round
diff_on_col_reversed(tiles1, tiles2, c0) ==
    SumTo([r \in 0..3 |->
             IF tiles1[r][c0] # tiles2[r][c0]
             THEN distance_to_goal_position(tiles2, r, c0)
                  - distance_to_goal_position(tiles1, r, c0)
             ELSE 0], 3)

diff_manhattan_dist_on_col(tiles1, tiles2, c0) ==
    SumTo([r \in 0..3 |->
             IF tiles1[r][c0] # tiles2[r][c0]
             THEN distance_to_goal_position(tiles1, r, c0)
                  - distance_to_goal_position(tiles2, r, c0)
             ELSE 0], 3)

\* ---------------------------------------------------------------- strings
Digits == <<"0", "1", "2", "3", "4", "5", "6", "7", "8", "9">>

RECURSIVE str(_)
\* '{}'.format(n) for a natural number n
str(n) == IF n < 10 THEN <<Digits[n + 1]>>
          ELSE str(n \div 10) \o <<Digits[(n % 10) + 1]>>

\* the two numbers of the label in each other's place
format_move_swapped(letter, a, b) == <<letter>> \o str(b) \o str(a)

\* '<letter>{}{}'.format(a, b)
format_move(letter, a, b) == <<letter>> \o str(a) \o str(b)

Initial == <<"I", "n", "i", "t", "i", "a", "l">>

NoSolutionPossible ==
    <<"N", "o", " ", "s", "o", "l", "u", "t", "i", "o", "n", " ",
      "p", "o", "s", "s", "i", "b", "l", "e">>

\* str(None), what print shows when solve falls out of its loop
NoneText == <<"N", "o", "n", "e">>

\* ------------------------------------------------------------ class Board
\* Board.__init__; bs is the arena in which prev is looked up
Board(bs, prev, tiles, move, delta_md) ==
    LET cost == IF prev = None THEN 0 ELSE bs[prev].cost + 1
        manhattan_distance ==
            IF prev = None THEN calc_manhattan_distance(tiles)
            ELSE bs[prev].manhattan_distance + delta_md
        linear_conflicts ==
            calc_horizontal_conflicts(tiles) + calc_vertical_conflicts(tiles)
    IN  [prev |-> prev,
         tiles |-> tiles,
         cost |-> cost,
         manhattan_distance |-> manhattan_distance,
         move |-> move,
         linear_conflicts |-> linear_conflicts,
         priority |-> cost + manhattan_distance + linear_conflicts,
         successors |-> <<>>,
         r0 |-> 0,
         c0 |-> 0]

\* AddSuccessor when the swap is made on the grid of self, not on a deepcopy
AddSuccessor_in_place(bs, self, successor) ==
    LET new == Len(bs) + 1
    IN  Append([bs EXCEPT ![self].successors = Append(@, new),
                          ![self].tiles = successor.tiles], successor)

\* bs after  self.successors.append(successor)  for a freshly built successor
AddSuccessor(bs, self, successor) ==
    LET new == Len(bs) + 1
    IN  Append([bs EXCEPT ![self].successors = Append(@, new)], successor)

RECURSIVE slide_down_labelled_up(_, _, _, _)
\* slide_down_and_add_successors with the letter of slide_up
slide_down_labelled_up(bs, self, tiles, r) ==
    IF r - 1 >= 0
    THEN LET new_tiles == swap_and_get_new_tiles(tiles, r, bs[self].c0, r - 1, bs[self].c0)
             successor == Call5(Board, bs, self, new_tiles,
                                format_move("U", bs[self].r0 - r + 1, bs[self].c0 + 1),
                                Call3(diff_manhattan_dist_on_col, new_tiles, bs[self].tiles, bs[self].c0))
         IN  Call4(slide_down_labelled_up, AddSuccessor(bs, self, successor), self, new_tiles, r - 1)
    ELSE bs

RECURSIVE slide_down_and_add_successors(_, _, _, _)
slide_down_and_add_successors(bs, self, tiles, r) ==
    IF r - 1 >= 0
    THEN LET new_tiles == swap_and_get_new_tiles(tiles, r, bs[self].c0, r - 1, bs[self].c0)
             successor == Call5(Board, bs, self, new_tiles,
                                format_move("D", bs[self].r0 - r + 1, bs[self].c0 + 1),
                                Call3(diff_manhattan_dist_on_col, new_tiles, bs[self].tiles, bs[self].c0))
         IN  Call4(slide_down_and_add_successors, AddSuccessor(bs, self, successor), self, new_tiles, r - 1)
    ELSE bs

RECURSIVE slide_up_stops_early(_, _, _, _)
\* slide_up_and_add_successors with the last row left out (r + 1 < 3)
slide_up_stops_early(bs, self, tiles, r) ==
    IF r + 1 < 3
    THEN LET new_tiles == swap_and_get_new_tiles(tiles, r, bs[self].c0, r + 1, bs[self].c0)
             successor == Call5(Board, bs, self, new_tiles,
                                format_move("U", r - bs[self].r0 + 1, bs[self].c0 + 1),
                                Call3(diff_manhattan_dist_on_col, new_tiles, bs[self].tiles, bs[self].c0))
         IN  Call4(slide_up_stops_early, AddSuccessor(bs, self, successor), self, new_tiles, r + 1)
    ELSE bs

RECURSIVE slide_up_and_add_successors(_, _, _, _)
slide_up_and_add_successors(bs, self, tiles, r) ==
    IF r + 1 < 4
    THEN LET new_tiles == swap_and_get_new_tiles(tiles, r, bs[self].c0, r + 1, bs[self].c0)
             successor == Call5(Board, bs, self, new_tiles,
                                format_move("U", r - bs[self].r0 + 1, bs[self].c0 + 1),
                                Call3(diff_manhattan_dist_on_col, new_tiles, bs[self].tiles, bs[self].c0))
         IN  Call4(slide_up_and_add_successors, AddSuccessor(bs, self, successor), self, new_tiles, r + 1)
    ELSE bs

RECURSIVE slide_right_and_add_successors(_, _, _, _)
slide_right_and_add_successors(bs, self, tiles, c) ==
    IF c - 1 >= 0
    THEN LET new_tiles == swap_and_get_new_tiles(tiles, bs[self].r0, c, bs[self].r0, c - 1)
             successor == Call5(Board, bs, self, new_tiles,
                                format_move("R", bs[self].c0 - c + 1, bs[self].r0 + 1),
                                Call3(diff_manhattan_dist_on_row, new_tiles, bs[self].tiles, bs[self].r0))
         IN  Call4(slide_right_and_add_successors, AddSuccessor(bs, self, successor), self, new_tiles, c - 1)
    ELSE bs

RECURSIVE slide_left_and_add_successors(_, _, _, _)
slide_left_and_add_successors(bs, self, tiles, c) ==
    IF c + 1 < 4
    THEN LET new_tiles == swap_and_get_new_tiles(tiles, bs[self].r0, c, bs[self].r0, c + 1)
             successor == Call5(Board, bs, self, new_tiles,
                                format_move("L", c - bs[self].c0 + 1, bs[self].r0 + 1),
                                Call3(diff_manhattan_dist_on_row, new_tiles, bs[self].tiles, bs[self].r0))
         IN  Call4(slide_left_and_add_successors, AddSuccessor(bs, self, successor), self, new_tiles, c + 1)
    ELSE bs

\* the loops of get_successors that look for the empty tile: the break leaves
\* the inner loop only, so the last row holding a 0 and its first 0 win
FindBlank(bs, self) ==
    LET tiles == bs[self].tiles
        zrows == {r \in 0..3 : \E c \in 0..3 : tiles[r][c] = 0}
    IN  IF zrows = {} THEN bs
        ELSE LET r == CHOOSE x \in zrows : \A y \in zrows : y <= x
                 zcols == {c \in 0..3 : tiles[r][c] = 0}
                 c == CHOOSE x \in zcols : \A y \in zcols : x <= y
             IN  [bs EXCEPT ![self].r0 = r, ![self].c0 = c]

\* Board.get_successors: the arena after the call; the value returned is
\* the successors field of self in it
get_successors(bs, self) ==
    IF bs[self].successors = <<>>
    THEN LET down(b) == slide_down_and_add_successors(b, self, b[self].tiles, b[self].r0)
             up(b) == slide_up_and_add_successors(b, self, b[self].tiles, b[self].r0)
             right(b) == slide_right_and_add_successors(b, self, b[self].tiles, b[self].c0)
             left(b) == slide_left_and_add_successors(b, self, b[self].tiles, b[self].c0)
         IN  Call1(left, Call1(right, Call1(up, Call1(down, FindBlank(bs, self)))))
    ELSE bs

RECURSIVE solution_stack(_, _)
\* the stack of Board.solution before it is reversed
solution_stack(bs, ptr) ==
    IF bs[ptr].prev = None THEN <<>>
    ELSE <<bs[ptr].move>> \o solution_stack(bs, bs[ptr].prev)

reverse(s) == [i \in 1..Len(s) |-> s[Len(s) + 1 - i]]

RECURSIVE join(_, _)
\* sep.join(list)
join(sep, list) ==
    IF list = <<>> THEN <<>>
    ELSE IF Len(list) = 1 THEN list[1]
    ELSE list[1] \o sep \o join(sep, Tail(list))

\* solution without stack.reverse()
solution_unreversed(bs, self) == join(<<" ">>, solution_stack(bs, self))

RECURSIVE stack_with_root(_, _)
stack_with_root(bs, ptr) ==
    IF ptr = None THEN <<>>
    ELSE <<bs[ptr].move>> \o stack_with_root(bs, bs[ptr].prev)

\* solution with the loop of solution_with_info (while ptr is not None)
solution_with_root(bs, self) == join(<<" ">>, reverse(stack_with_root(bs, self)))

solution(bs, self) == join(<<" ">>, reverse(solution_stack(bs, self)))

\* a same_as that never finds two grids alike
same_as_never(bs, self, other) == FALSE

same_as(bs, self, other) == bs[self].tiles = bs[other].tiles

\* ---------------------------------------------------------- module level
is_goal(board) == board.tiles = goal_tiles

\* is_solvable without the row of the empty tile
is_solvable_inversions_only(board) ==
    LET flat_board == [i \in 0..15 |-> board.tiles[i \div 4][i % 4]]
        inversions == Cardinality({p \in (0..15) \X (0..15) :
                          /\ p[2] >= p[1] + 1
                          /\ flat_board[p[1]] # 0
                          /\ flat_board[p[2]] # 0
                          /\ flat_board[p[1]] > flat_board[p[2]]})
    IN  inversions % 2 = 1

\* is_solvable with the other parity
is_solvable_even(board) ==
    LET flat_board == [i \in 0..15 |-> board.tiles[i \div 4][i % 4]]
        zrows == {r \in 0..3 : \E c \in 0..3 : board.tiles[r][c] = 0}
        r0 == IF zrows = {} THEN 0 ELSE CHOOSE x \in zrows : \A y \in zrows : y <= x
        inversions == Cardinality({p \in (0..15) \X (0..15) :
                          /\ p[2] >= p[1] + 1
                          /\ flat_board[p[1]] # 0
                          /\ flat_board[p[2]] # 0
                          /\ flat_board[p[1]] > flat_board[p[2]]})
    IN  (r0 + inversions) % 2 = 0

is_solvable(board) ==
    LET flat_board == [i \in 0..15 |-> board.tiles[i \div 4][i % 4]]
        zrows == {r \in 0..3 : \E c \in 0..3 : board.tiles[r][c] = 0}
        r0 == IF zrows = {} THEN 0 ELSE CHOOSE x \in zrows : \A y \in zrows : y <= x
        inversions == Cardinality({p \in (0..15) \X (0..15) :
                          /\ p[2] >= p[1] + 1
                          /\ flat_board[p[1]] # 0
                          /\ flat_board[p[2]] # 0
                          /\ flat_board[p[1]] > flat_board[p[2]]})
    IN  (r0 + inversions) % 2 = 1

\* a pop that also takes an entry one above the lowest priority
heappop_near_lowest(h) == {e \in h : \A f \in h : e[1] <= f[1] + 1}

\* a pop that takes any entry
heappop_any(h) == h

\* heapq.heappop(fringe): the entries one of which is returned.  Entries of
\* equal priority are ordered by comparing the Board instances, which
\* Python 2 does by address, so any entry of the lowest priority can come out
heappop(h) == {e \in h : \A f \in h : e[1] <= f[1]}

\* the entry solve pushes for a board
entry(bs, b) == <<bs[b].priority, b>>

\* the test of solve with "is not None and" for "is None or"
pushed_never_for_root(bs, b) ==
    {s \in {bs[b].successors[k] : k \in DOMAIN bs[b].successors} :
        bs[b].prev # None /\ ~(bs[s].tiles = bs[bs[b].prev].tiles)}

\* the successors that the loop of solve pushes after popping board b
pushed(bs, b) ==
    {s \in {bs[b].successors[k] : k \in DOMAIN bs[b].successors} :
        bs[b].prev = None \/ ~same_as(bs, s, bs[b].prev)}

\* ------------------------------------------------------------ the puzzle
\* the moves of the puzzle itself (header of solver16.py: 1 to 3 tiles of
\* the blank's row or column slide together towards the blank)
BlankPos(tiles) == CHOOSE p \in (0..3) \X (0..3) : tiles[p[1]][p[2]] = 0

\* the grid after the blank travelled k cells in direction (dr, dc), the k
\* tiles on its way each moving one cell the other way
MoveBlank(tiles, dr, dc, k) ==
    LET b == BlankPos(tiles)
    IN  [r \in 0..3 |-> [c \in 0..3 |->
            IF \E j \in 0..(k - 1) : r = b[1] + j * dr /\ c = b[2] + j * dc
            THEN tiles[r + dr][c + dc]
            ELSE IF r = b[1] + k * dr /\ c = b[2] + k * dc THEN 0
            ELSE tiles[r][c]]]

Directions == {<<1, 0>>, <<0 - 1, 0>>, <<0, 1>>, <<0, 0 - 1>>}

\* how far the blank can travel in direction (dr, dc)
Room(tiles, dr, dc) ==
    LET b == BlankPos(tiles)
    IN  IF dr = 1 THEN 3 - b[1] ELSE IF dr = 0 - 1 THEN b[1]
        ELSE IF dc = 1 THEN 3 - b[2] ELSE b[2]

LegalSlides(tiles) ==
    UNION {{MoveBlank(tiles, d[1], d[2], k) : k \in 1..Room(tiles, d[1], d[2])} :
              d \in Directions}

\* ------------------------------------------------------------------ inputs
RECURSIVE Within(_, _, _)
\* the grids at most d slides away from the grids of seen (front: the newest)
Within(seen, front, d) ==
    IF d = 0 \/ front = {} THEN seen
    ELSE LET new == UNION {LegalSlides(g) : g \in front} \ seen
         IN  Within(seen \cup new, new, d - 1)

swapped_tiles == swap_and_get_new_tiles(goal_tiles, 0, 0, 0, 1)

\* roots further from the goal, on which entries of equal priority meet in
\* the fringe
ExtraRoots ==
    {Rows(<<<<1, 2, 3, 4>>, <<5, 6, 7, 8>>, <<10, 13, 11, 12>>, <<9, 0, 14, 15>>>>),
     Rows(<<<<1, 2, 7, 3>>, <<5, 6, 4, 0>>, <<9, 10, 11, 8>>, <<13, 14, 15, 12>>>>),
     Rows(<<<<1, 2, 3, 4>>, <<5, 6, 7, 8>>, <<13, 9, 11, 12>>, <<10, 0, 14, 15>>>>)}

\* a root six slides from the goal
FarRoot == Rows(<<<<2, 3, 7, 4>>, <<1, 6, 10, 8>>, <<5, 9, 11, 0>>, <<13, 14, 15, 12>>>>)

NearGoal == Within({goal_tiles}, {goal_tiles}, MaxRootDepth)

NearSwapped == Within({swapped_tiles}, {swapped_tiles}, MaxRootDepth)

Roots == NearGoal \cup NearSwapped \cup ExtraRoots \cup {FarRoot}

\* is_solvable is compared with exhaustive reachability on the 720
\* grids that rearrange the block of the bottom two rows of the last three
\* columns (a 2 x 3 puzzle of its own, with the goal's blank in it)
BlockCells == (2..3) \X (1..3)

RECURSIVE Arrangements(_, _)
\* the grids that agree with the goal grid outside cells and hold the values
\* vals inside, in every order
Arrangements(cells, vals) ==
    IF cells = {} THEN {goal_tiles}
    ELSE LET p == CHOOSE x \in cells : TRUE
         IN  UNION {{[g EXCEPT ![p[1]][p[2]] = v] :
                        g \in Arrangements(cells \ {p}, vals \ {v})} : v \in vals}

Family == Arrangements(BlockCells, {goal_tiles[p[1]][p[2]] : p \in BlockCells})

InFamily(tiles) ==
    \A r \in 0..3 : \A c \in 0..3 :
        <<r, c>> \notin BlockCells => tiles[r][c] = goal_tiles[r][c]

RECURSIVE BlockClosure(_, _)
\* the grids joined to the grids of seen by slides that stay inside the block
BlockClosure(seen, front) ==
    IF front = {} THEN seen
    ELSE LET new == {s \in UNION {LegalSlides(g) : g \in front} : InFamily(s)} \ seen
         IN  BlockClosure(seen \cup new, new)

\* grids joined to the goal grid by legal slides (every slide has an inverse
\* slide, so the goal is reached from them as they are from the goal)
ReachableFromGoal == BlockClosure({goal_tiles}, {goal_tiles}) \cup NearGoal

\* ----------------------------------------------------------------- actions
\* initial_board = Board(None, initial_tiles, 'Initial', 0)
InitWith(initial_tiles) ==
    /\ boards = <<Board(<<>>, None, initial_tiles, Initial, 0)>>
    /\ fringe = {}
    /\ min_p_board = None
    /\ pc = "main"
    /\ output = <<>>

Init == \E initial_tiles \in Roots : InitWith(initial_tiles)

\* main without the solvability test
main_solve_unchecked ==
    /\ pc = "main"
    /\ fringe' = {<<boards[1].priority, 1>>}
    /\ pc' = "solve"
    /\ UNCHANGED <<boards, min_p_board, output>>

\* if is_solvable(initial_board): solve(initial_board) is entered and pushes
\* the board on the fringe
main_solve ==
    /\ pc = "main"
    /\ is_solvable(boards[1])
    /\ fringe' = {entry(boards, 1)}
    /\ pc' = "solve"
    /\ UNCHANGED <<boards, min_p_board, output>>

\* else: print 'No solution possible'
main_no_solution ==
    /\ pc = "main"
    /\ ~is_solvable(boards[1])
    /\ output' = NoSolutionPossible
    /\ pc' = "done"
    /\ UNCHANGED <<boards, fringe, min_p_board>>

\* one test of the while condition of solve and, if it holds, one pass
\* through the body; a return ends the script with the print of main
solve_loop ==
    /\ pc = "solve"
    /\ IF fringe = {}
       THEN /\ output' = NoneText
            /\ pc' = "done"
            /\ UNCHANGED <<boards, fringe, min_p_board>>
       ELSE \E e \in heappop(fringe) :
              /\ min_p_board' = e[2]
              /\ IF boards[e[2]].tiles = goal_tiles
                 THEN /\ output' = solution(boards, e[2])
                      /\ pc' = "done"
                      /\ fringe' = fringe \ {e}
                      /\ UNCHANGED boards
                 ELSE \E bs \in {get_successors(boards, e[2])} :
                          /\ boards' = bs
                          /\ fringe' = (fringe \ {e}) \cup {entry(bs, s) : s \in pushed(bs, e[2])}
                          /\ UNCHANGED <<pc, output>>

\* is_solvable alone, applied by main to the family of block arrangements
InitFamily ==
    \E initial_tiles \in Family \cup NearGoal \cup NearSwapped : InitWith(initial_tiles)

NextMain == main_solve \/ main_no_solution

SolvableSpec == InitFamily /\ [][NextMain]_vars

Next == main_solve \/ main_no_solution \/ solve_loop

Spec == Init /\ [][Next]_vars

\* get_successors alone, called on a root board whether or not is_solvable
\* accepts it
expand_root ==
    /\ pc = "main"
    /\ Len(boards) = 1
    /\ boards' = get_successors(boards, 1)
    /\ UNCHANGED <<fringe, min_p_board, pc, output>>

ExpandSpec == InitFamily /\ [][expand_root]_vars

\* the script runs to its end: nothing but the script itself schedules it
LiveSpec == Init /\ [][Next]_vars /\ WF_vars(Next)

RECURSIVE solve_outcomes(_, _)
\* what solve can return from the test of its while condition on, arena bs
\* and fringe fr: the texts printed over every choice the pops can make
solve_outcomes(bs, fr) ==
    IF fr = {} THEN {NoneText}
    ELSE UNION {IF bs[e[2]].tiles = goal_tiles
                THEN {solution(bs, e[2])}
                ELSE UNION {UNION {solve_outcomes(x[1], x[2]) :
                                     x \in {<<b2, (fr \ {e})
                                                  \cup {entry(b2, s) : s \in pushed(b2, e[2])}>>}} :
                               b2 \in {get_successors(bs, e[2])}} :
                  e \in heappop(fr)}

\* what the script can print for initial_tiles
main_outcomes(initial_tiles) ==
    LET bs == <<Board(<<>>, None, initial_tiles, Initial, 0)>>
    IN  IF is_solvable(bs[1])
        THEN UNION {solve_outcomes(x, {entry(x, 1)}) : x \in {bs}}
        ELSE {NoSolutionPossible}

\* ------------------------------------------------- reading the output back
DigitOf(ch) == IF \E d \in 0..9 : Digits[d + 1] = ch
               THEN CHOOSE d \in 0..9 : Digits[d + 1] = ch
               ELSE 0 - 1

RECURSIVE Labels(_)
\* the labels of a printed solution: its pieces between the spaces
Labels(text) ==
    IF text = <<>> THEN <<>>
    ELSE LET spaces == {k \in 1..Len(text) : text[k] = " "}
             n == IF spaces = {} THEN Len(text) + 1
                  ELSE CHOOSE k \in spaces : \A j \in spaces : k <= j
         IN  <<SubSeq(text, 1, n - 1)>>
             \o (IF n > Len(text) THEN <<>> ELSE Labels(SubSeq(text, n + 1, Len(text))))

\* no grid: what playing an impossible label gives
Broken == [r \in 0..3 |-> [c \in 0..3 |-> 16]]

\* the way the blank goes when the tiles slide the way the letter says
BlankWay(letter) ==
    IF letter = "D" THEN <<0 - 1, 0>>
    ELSE IF letter = "U" THEN <<1, 0>>
    ELSE IF letter = "R" THEN <<0, 0 - 1>>
    ELSE <<0, 1>>

\* the slide a label records, played on a grid: count tiles of the column
\* (D, U) or row (R, L) of that number slide the way the letter says, into
\* the blank, which must lie on that line with that many tiles behind it
PlayLabel(tiles, label) ==
    IF tiles = Broken \/ Len(label) # 3 \/ label[1] \notin {"D", "U", "R", "L"}
    THEN Broken
    ELSE LET d == BlankWay(label[1])
             k == DigitOf(label[2])
             line == DigitOf(label[3])
             b == BlankPos(tiles)
         IN  IF /\ k >= 1
                /\ k <= Room(tiles, d[1], d[2])
                /\ line = (IF d[2] = 0 THEN b[2] + 1 ELSE b[1] + 1)
             THEN MoveBlank(tiles, d[1], d[2], k)
             ELSE Broken

RECURSIVE Play(_, _)
Play(tiles, labels) ==
    IF labels = <<>> THEN tiles
    ELSE Play(PlayLabel(tiles, Head(labels)), Tail(labels))

Root == boards[1]

\* the boards built by get_successors
Children == {i \in 1..Len(boards) : boards[i].prev # None}

\* the boards that get_successors was called on
Expanded == {i \in 1..Len(boards) : boards[i].successors # <<>>}

BlankRow(i) == BlankPos(boards[i].tiles)[1]

BlankCol(i) == BlankPos(boards[i].tiles)[2]

\* -------------------------------------------------------------- properties
\* C1: for a root that is_solvable accepts, the move sequence solve returns,
\* played label by label on the root grid, ends exactly at the goal grid.
C1_SolutionReachesGoal ==
    (pc = "done" /\ is_solvable(Root) /\ output # NoneText)
        => Play(Root.tiles, Labels(output)) = goal_tiles

C1_Witness ==
    /\ pc = "done"
    /\ is_solvable(Root)
    /\ Len(Labels(output)) >= 3
    /\ Play(Root.tiles, Labels(output)) = goal_tiles

\* C2: for a root that is_solvable accepts, the loop of solve eventually pops
\* a board whose grid is the goal and returns its solution, whichever of the
\* entries of lowest priority each pop takes.
C2_SolveTerminates ==
    is_solvable(Root) ~>
        (/\ pc = "done"
         /\ min_p_board # None
         /\ boards[min_p_board].tiles = goal_tiles
         /\ output # NoneText)

\* a search ended that had to choose between entries of equal priority
C2_Witness ==
    /\ pc = "done"
    /\ is_solvable(Root)
    /\ min_p_board # None
    /\ boards[min_p_board].tiles = goal_tiles
    /\ Root.tiles \in ExtraRoots
    /\ Cardinality(Expanded) >= 4

\* C3: is_solvable accepts a grid exactly when the goal grid is joined to it
\* by legal slides (stated for every arrangement of the block, against the
\* exhaustive search of the block, and on the grids near the goal and near
\* the goal with 1 and 2 swapped).
C3_SolvableIffReachable ==
    pc # "main" => ((pc = "solve") <=> (Root.tiles \in ReachableFromGoal))

C3_Witness ==
    /\ pc = "solve"
    /\ Root.tiles \in Family
    /\ Root.tiles \notin NearGoal
    /\ Root.tiles \in ReachableFromGoal

\* C4: when is_solvable rejects the root, the outcome is 'No solution
\* possible' and solve is never entered: no board is pushed, popped or
\* expanded.
C4_UnsolvableNeverSearched ==
    ~is_solvable(Root) =>
        /\ fringe = {}
        /\ min_p_board = None
        /\ Len(boards) = 1
        /\ Root.successors = <<>>
        /\ pc \in {"main", "done"}
        /\ pc = "done" => output = NoSolutionPossible

C4_Witness ==
    /\ Root.tiles = swapped_tiles
    /\ pc = "done"
    /\ output = NoSolutionPossible

\* C5: when the root is the goal grid, is_solvable accepts it and solve
\* returns at its first pop with the empty move sequence, no successor
\* having been generated or pushed.
C5_GoalRootReturnsEmpty ==
    Root.tiles = goal_tiles =>
        /\ is_solvable(Root)
        /\ Len(boards) = 1
        /\ Root.successors = <<>>
        /\ fringe \subseteq {<<Root.priority, 1>>}
        /\ pc = "solve" => (min_p_board = None /\ fringe # {})
        /\ pc = "done" => (min_p_board = 1 /\ output = <<>> /\ fringe = {})

C5_Witness ==
    /\ Root.tiles = goal_tiles
    /\ pc = "done"
    /\ min_p_board = 1
    /\ output = <<>>

\* C6: when the goal is one slide (of 1, 2 or 3 tiles) away from the root,
\* is_solvable accepts the root and solve returns exactly one move, that
\* slide, having expanded the root only.
C6_OneSlideFromGoal ==
    Root.tiles \in LegalSlides(goal_tiles) =>
        /\ is_solvable(Root)
        /\ Expanded \subseteq {1}
        /\ pc = "done" =>
              /\ Len(Labels(output)) = 1
              /\ PlayLabel(Root.tiles, Labels(output)[1]) = goal_tiles
              /\ boards[min_p_board].prev = 1

C6_Witness ==
    /\ Root.tiles \in LegalSlides(goal_tiles)
    /\ pc = "done"
    /\ Len(Labels(output)) = 1
    /\ DigitOf(output[2]) = 3

\* C7 as stated: the letter of a label names the way the blank moves (D:
\* the blank's row index grows, U: it shrinks, R: the blank's column index
\* grows, L: it shrinks).
C7_LetterIsBlankDirection ==
    \A i \in Children :
        LET l == boards[i].move[1]
            p == boards[i].prev
        IN  /\ l = "D" => BlankRow(i) > BlankRow(p)
            /\ l = "U" => BlankRow(i) < BlankRow(p)
            /\ l = "R" => BlankCol(i) > BlankCol(p)
            /\ l = "L" => BlankCol(i) < BlankCol(p)

\* C7 as amended: the letter of a label names the way the tiles slide, the
\* blank going the other way (D: the blank's row index shrinks, U: it grows,
\* R: the blank's column index shrinks, L: it grows), along its line.
C7_LetterIsTileDirection ==
    \A i \in Children :
        LET l == boards[i].move[1]
            p == boards[i].prev
        IN  /\ l \in {"D", "U", "R", "L"}
            /\ l = "D" => (BlankRow(i) < BlankRow(p) /\ BlankCol(i) = BlankCol(p))
            /\ l = "U" => (BlankRow(i) > BlankRow(p) /\ BlankCol(i) = BlankCol(p))
            /\ l = "R" => (BlankCol(i) < BlankCol(p) /\ BlankRow(i) = BlankRow(p))
            /\ l = "L" => (BlankCol(i) > BlankCol(p) /\ BlankRow(i) = BlankRow(p))

C7_Witness ==
    \A l \in {"D", "U", "R", "L"} : \E i \in Children : boards[i].move[1] = l

\* C8: in every label the digit after the letter is the number of tiles the
\* slide moved (the cells the blank travelled from the parent's blank, 1..3)
\* and the last digit is the 1-based number of the column (D, U) or row
\* (R, L) of the parent's blank, which the slide leaves unchanged.
C8_LabelCountAndLine ==
    \A i \in Children :
        LET m == boards[i].move
            p == boards[i].prev
            travelled == Abs(BlankRow(i) - BlankRow(p)) + Abs(BlankCol(i) - BlankCol(p))
            moved == {q \in (0..3) \X (0..3) :
                         /\ boards[i].tiles[q[1]][q[2]] # 0
                         /\ boards[i].tiles[q[1]][q[2]] # boards[p].tiles[q[1]][q[2]]}
        IN  /\ Len(m) = 3
            /\ DigitOf(m[2]) = travelled
            /\ DigitOf(m[2]) = Cardinality(moved)
            /\ DigitOf(m[2]) \in 1..3
            /\ m[1] \in {"D", "U"} =>
                  (DigitOf(m[3]) = BlankCol(p) + 1 /\ BlankCol(i) = BlankCol(p))
            /\ m[1] \in {"R", "L"} =>
                  (DigitOf(m[3]) = BlankRow(p) + 1 /\ BlankRow(i) = BlankRow(p))

C8_Witness ==
    /\ \E i \in Children : boards[i].move[1] = "D" /\ DigitOf(boards[i].move[2]) = 3
    /\ \E i \in Children : boards[i].move[1] = "L" /\ DigitOf(boards[i].move[2]) = 2
    /\ \E i \in Children : DigitOf(boards[i].move[2]) # DigitOf(boards[i].move[3])

\* C9: get_successors on a board whose blank is at (r, c) yields exactly
\* r + (3 - r) + c + (3 - c) = 6 successors: for each direction one child per
\* distance 1..d, d the cells between the blank and the edge that way, the
\* k-th being the parent grid after k blank swaps that way, in this order.
C9_SuccessorsOfBoard ==
    \A i \in Expanded :
        LET t == boards[i].tiles
            r == BlankRow(i)
            c == BlankCol(i)
            succ == boards[i].successors
            At(d, k) == {n \in 1..Len(succ) :
                            boards[succ[n]].tiles = MoveBlank(t, d[1], d[2], k)}
        IN  /\ Len(succ) = r + (3 - r) + c + (3 - c)
            /\ Len(succ) = 6
            /\ \A n \in 1..Len(succ) : boards[succ[n]].prev = i
            /\ \A d \in Directions :
                  /\ Room(t, d[1], d[2]) = (IF d[1] = 1 THEN 3 - r ELSE IF d[1] = 0 - 1 THEN r
                                            ELSE IF d[2] = 1 THEN 3 - c ELSE c)
                  /\ \A k \in 1..Room(t, d[1], d[2]) : Cardinality(At(d, k)) = 1
                  /\ \A k \in 1..(Room(t, d[1], d[2]) - 1) :
                        \A n \in At(d, k) : \A n2 \in At(d, k + 1) : n < n2

C9_Witness ==
    \E i \in Expanded :
        /\ BlankRow(i) \in {1, 2}
        /\ BlankCol(i) \in {1, 2}
        /\ Len(boards[i].successors) = 6

\* C10: every pop takes an entry of the lowest priority in the fringe at
\* that moment, and the priority of an entry is the depth cost plus the
\* Manhattan distance plus the linear conflicts of its board.
C10_PopsLowestPriority ==
    [][(pc = "solve" /\ fringe # {}) =>
          /\ <<boards[min_p_board'].priority, min_p_board'>> \in fringe
          /\ <<boards[min_p_board'].priority, min_p_board'>> \notin fringe'
          /\ \A e \in fringe :
                /\ boards[min_p_board'].priority <= e[1]
                /\ e[1] = boards[e[2]].cost + boards[e[2]].manhattan_distance
                          + boards[e[2]].linear_conflicts]_vars

\* a pop that left behind an older entry of higher priority and another of
\* the same priority
C10_Witness ==
    /\ min_p_board # None
    /\ \E e \in fringe :
          /\ boards[e[2]].prev # min_p_board
          /\ e[1] > boards[min_p_board].priority
    /\ \E e \in fringe :
          /\ boards[e[2]].prev # min_p_board
          /\ e[1] = boards[min_p_board].priority

\* the boards that were pushed on the fringe at some time: those in it and
\* those popped from it
Pushed == {e[2] : e \in fringe} \cup Expanded
              \cup (IF min_p_board = None THEN {} ELSE {min_p_board})

\* C11: when a popped board is expanded, a successor is pushed if and only
\* if the popped board is the root or the successor's grid differs from the
\* grid of the popped board's parent; so every board ever pushed at depth 2
\* or more has a grid other than its grandparent's, and all successors of
\* the root are pushed.
C11_UndoPruning ==
    [][(pc = "solve" /\ boards' # boards) =>
          LET b == min_p_board'
              succ == boards'[b].successors
          IN  /\ \A k \in 1..Len(succ) :
                    (entry(boards', succ[k]) \in fringe')
                        <=> (boards[b].prev = None
                             \/ boards'[succ[k]].tiles # boards[boards[b].prev].tiles)
              /\ \A i \in Pushed' :
                    boards'[i].cost >= 2 =>
                        boards'[i].tiles # boards'[boards'[boards'[i].prev].prev].tiles
              /\ b = 1 => \A k \in 1..Len(succ) : succ[k] \in Pushed']_vars

\* a board other than the root was expanded, and the successor that undoes
\* its move was left out of the fringe
C11_Witness ==
    \E i \in Expanded :
        /\ boards[i].prev # None
        /\ \E k \in 1..Len(boards[i].successors) :
              LET s == boards[i].successors[k]
              IN  /\ boards[s].tiles = boards[boards[i].prev].tiles
                  /\ s \notin Pushed
        /\ Cardinality({k \in 1..Len(boards[i].successors) :
                            boards[i].successors[k] \in Pushed}) = 5

\* C12: the manhattan_distance a board carries (its parent's plus the
\* difference on the row or column of the slide) equals the Manhattan
\* distance computed from scratch on its grid, for slides of 1, 2 and 3 tiles
\* in the four directions at every depth; it is never negative and it is 0
\* exactly when the grid is the goal grid.
C12_CachedManhattanDistance ==
    \A i \in 1..Len(boards) :
        /\ boards[i].manhattan_distance = calc_manhattan_distance(boards[i].tiles)
        /\ boards[i].manhattan_distance >= 0
        /\ (boards[i].manhattan_distance = 0) <=> (boards[i].tiles = goal_tiles)

\* below the first level a column slide and a row slide of three tiles were
\* made, the four directions were taken, and a goal board was built by a slide
C12_Witness ==
    /\ \E i \in Children :
          /\ boards[i].cost >= 2
          /\ boards[i].move[1] \in {"D", "U"}
          /\ DigitOf(boards[i].move[2]) = 3
    /\ \E i \in Children :
          /\ boards[i].cost >= 2
          /\ boards[i].move[1] \in {"R", "L"}
          /\ DigitOf(boards[i].move[2]) = 3
    /\ \A l \in {"D", "U", "R", "L"} :
          \E i \in Children : boards[i].cost >= 2 /\ boards[i].move[1] = l
    /\ \E i \in Children : boards[i].manhattan_distance = 0

\* C13: every slide keeps the parity that is_solvable tests: each successor
\* has the same (row of the empty tile + inversions) mod 2 as its parent, so
\* is_solvable accepts every board generated from a root it accepts and none
\* generated from a root it rejects.
C13_SlidesKeepParity ==
    \A i \in Children :
        /\ is_solvable(boards[i]) <=> is_solvable(boards[boards[i].prev])
        /\ is_solvable(boards[i]) <=> is_solvable(Root)

\* a rejected root was expanded; one, two and three tiles slid along its
\* column and along its row
C13_Witness ==
    /\ ~is_solvable(Root)
    /\ Len(Root.successors) = 6
    /\ \E i \in Children : boards[i].move[1] \in {"D", "U"} /\ DigitOf(boards[i].move[2]) = 3
    /\ \E i \in Children : boards[i].move[1] \in {"D", "U"} /\ DigitOf(boards[i].move[2]) = 1
    /\ \E i \in Children : boards[i].move[1] \in {"R", "L"} /\ DigitOf(boards[i].move[2]) = 2

\* the grid holds each of 0..15 once
IsPermutation(tiles) ==
    \A v \in 0..15 :
        Cardinality({p \in (0..3) \X (0..3) : tiles[p[1]][p[2]] = v}) = 1

\* C14: from a root grid that is a permutation of 0..15, the grid of every
\* board generated is a permutation of 0..15 with exactly one 0, and it
\* differs from its parent's grid only in cells of the one row or the one
\* column that holds the parent's empty tile.
C14_GridsArePermutations ==
    IsPermutation(Root.tiles) =>
        \A i \in 1..Len(boards) :
            /\ IsPermutation(boards[i].tiles)
            /\ Cardinality({p \in (0..3) \X (0..3) : boards[i].tiles[p[1]][p[2]] = 0}) = 1
            /\ boards[i].prev # None =>
                  LET p == boards[i].prev
                      changed == {q \in (0..3) \X (0..3) :
                                     boards[i].tiles[q[1]][q[2]] # boards[p].tiles[q[1]][q[2]]}
                  IN  /\ changed # {}
                      /\ \/ \A q \in changed : q[1] = BlankRow(p)
                         \/ \A q \in changed : q[2] = BlankCol(p)

\* boards two levels down whose grid differs from the parent's in four cells
\* of a row, and in four cells of a column
C14_Witness ==
    /\ IsPermutation(Root.tiles)
    /\ \E i \in Children :
          /\ boards[i].cost >= 2
          /\ Cardinality({q \in (0..3) \X (0..3) :
                 /\ q[1] = BlankRow(boards[i].prev)
                 /\ boards[i].tiles[q[1]][q[2]] # boards[boards[i].prev].tiles[q[1]][q[2]]}) = 4
    /\ \E i \in Children :
          /\ boards[i].cost >= 2
          /\ Cardinality({q \in (0..3) \X (0..3) :
                 /\ q[2] = BlankCol(boards[i].prev)
                 /\ boards[i].tiles[q[1]][q[2]] # boards[boards[i].prev].tiles[q[1]][q[2]]}) = 4

\* C15 as stated: SearchExhausted is a reachable outcome: there is a run of
\* solve in which the fringe becomes empty without a goal board having been
\* popped, and the script then ends with the failure value (None); the run
\* is looked for from every root, that of the present run among them.
C15_SearchExhaustedReachable ==
    \E initial_tiles \in Roots \cup {Root.tiles} :
        NoneText \in main_outcomes(initial_tiles)

\* C15 as amended: SearchExhausted is not a reachable outcome: the fringe is
\* never empty when solve tests its while condition (an expansion takes one
\* entry out and puts at least five in), so solve returns only by popping a
\* goal board and the failure value is never produced.
C15_SearchNeverExhausted ==
    /\ pc = "solve" => fringe # {}
    /\ output # NoneText
    /\ (pc = "solve" /\ min_p_board # None) => Cardinality(fringe) >= 5
    /\ (pc = "done" /\ is_solvable(Root)) => boards[min_p_board].tiles = goal_tiles

\* a search of several expansions ended, entries still in the fringe
C15_Witness ==
    /\ pc = "done"
    /\ is_solvable(Root)
    /\ Cardinality(Expanded) >= 3
    /\ fringe # {}
    /\ output # NoneText
    /\ output \in main_outcomes(Root.tiles)

\* C16: expanding the root pushes exactly 6 boards and expanding any other
\* board exactly 5 (one of its 6 successors has the grid of its parent and is
\* left out); only a pop takes an entry out of the fringe; so after n >= 1
\* expansions the fringe holds 4n + 2 entries, more after every expansion.
C16_FringeGrowth ==
    [][pc = "solve" =>
          LET b == min_p_board'
          IN  /\ fringe \ fringe' = {entry(boards, b)}
              /\ boards' # boards =>
                    LET succ == boards'[b].successors
                    IN  /\ Cardinality(fringe' \ fringe)
                               = (IF boards[b].prev = None THEN 6 ELSE 5)
                        /\ boards[b].prev # None =>
                              Cardinality({k \in 1..Len(succ) :
                                  boards'[succ[k]].tiles = boards[boards[b].prev].tiles}) = 1
                        /\ Cardinality(Expanded') = Cardinality(Expanded) + 1
                        /\ Cardinality(fringe') = 4 * Cardinality(Expanded') + 2
                        /\ Cardinality(fringe') > Cardinality(fringe)]_vars

\* the loop test after four expansions, 18 entries in the fringe
C16_Witness ==
    /\ pc = "solve"
    /\ Cardinality(Expanded) = 4
    /\ Cardinality(fringe) = 18

\* the numbers of moves of the texts the script can print for initial_tiles
Lengths(initial_tiles) == {Len(Labels(o)) : o \in main_outcomes(initial_tiles)}

\* C17 as stated: the number of moves solve returns for a root does not
\* depend on which of the entries of equal priority the pops take: the runs
\* of solve on the root of this run all return as many moves as this run.
C17_LengthIndependentOfTies ==
    (pc = "done" /\ is_solvable(Root)) =>
        Lengths(Root.tiles) = {Len(Labels(output))}

\* C17 as amended: the number of moves can depend on the pops' choices (for
\* FarRoot it does); it does not for the roots at most MaxRootDepth slides
\* from the goal and for the roots of ExtraRoots, on which the pops do have
\* entries of equal priority to choose from.
C17_LengthIndependentNearGoal ==
    (pc = "done" /\ is_solvable(Root) /\ Root.tiles \in NearGoal \cup ExtraRoots) =>
        Lengths(Root.tiles) = {Len(Labels(output))}

\* a run ended on a root of ExtraRoots in which a pop had to choose: the
\* board it took was expanded while an older entry of the same priority
\* stayed in the fringe
C17_Witness ==
    /\ pc = "done"
    /\ Root.tiles \in ExtraRoots
    /\ \E i \in Expanded : \E e \in fringe :
          /\ e[1] = boards[i].priority
          /\ e[2] < boards[i].successors[1]
    /\ Lengths(Root.tiles) = {Len(Labels(output))}

\* the cells in which the grid is not the goal grid
OffGoal(tiles) == {q \in (0..3) \X (0..3) : tiles[q[1]][q[2]] # goal_tiles[q[1]][q[2]]}

C19_NeverMutated ==
    [][\A i \in 1..Len(boards) :
          /\ boards'[i].tiles = boards[i].tiles
          /\ boards'[i].prev = boards[i].prev
          /\ boards'[i].cost = boards[i].cost
          /\ boards'[i].manhattan_distance = boards[i].manhattan_distance
          /\ boards'[i].linear_conflicts = boards[i].linear_conflicts
          /\ boards'[i].priority = boards[i].priority
          /\ boards'[i].move = boards[i].move
          /\ boards'[i].r0 = boards[i].r0
          /\ boards'[i].c0 = boards[i].c0]_vars

\* C19 as amended: the fields tiles, prev, cost, manhattan_distance,
\* linear_conflicts, priority and move of a Board never change after its
\* construction (get_successors builds every child on a copy of the grid);
\* r0 and c0 are 0 from construction on, whatever the grid, and
\* get_successors, when it expands the Board, overwrites them with the place
\* of the empty tile and fills the Board's list of successors.
C19_MutatedOnlyByExpansion ==
    [][\A i \in 1..Len(boards) :
          /\ boards'[i].tiles = boards[i].tiles
          /\ boards'[i].prev = boards[i].prev
          /\ boards'[i].cost = boards[i].cost
          /\ boards'[i].manhattan_distance = boards[i].manhattan_distance
          /\ boards'[i].linear_conflicts = boards[i].linear_conflicts
          /\ boards'[i].priority = boards[i].priority
          /\ boards'[i].move = boards[i].move
          /\ boards[i].successors = <<>> => (boards[i].r0 = 0 /\ boards[i].c0 = 0)
          /\ boards'[i] # boards[i] =>
                /\ i = min_p_board'
                /\ boards[i].successors = <<>>
                /\ Len(boards'[i].successors) = 6
                /\ boards'[i].r0 = BlankRow(i)
                /\ boards'[i].c0 = BlankCol(i)]_vars

\* a board other than the root was expanded: its r0 and c0, 0 until then,
\* now give the place of its empty tile, its grid being what it was
C19_Witness ==
    \E i \in Expanded :
        /\ boards[i].prev # None
        /\ boards[i].r0 = BlankRow(i)
        /\ boards[i].c0 = BlankCol(i)
        /\ boards[i].r0 > 0
        /\ boards[i].c0 > 0
        /\ \E j \in Children :
              /\ boards[j].successors = <<>>
              /\ BlankRow(j) > 0
              /\ boards[j].r0 = 0

====
